---- MODULE Spec2Model ----
(***************************************************************************)
(* Model of src/server.py (DocxProcessor): structured extraction of a      *)
(* docx body (paragraphs, tables with merged cells) and the               *)
(* format-preserving block edit.                                           *)
(*                                                                         *)
(* The document tree is the python-docx object model the code works on:    *)
(*   body      sequence of nodes, kind "p" (CT_P), "tbl" (CT_Tbl) or       *)
(*             "other" (anything else, such as w:sectPr)                   *)
(*   paragraph style name, alignment, w:pageBreakBefore, direct runs       *)
(*   run       text, tri-state bold/italic/underline, rFonts, w:sz in      *)
(*             half-points, w:color as three bytes, page-type w:br         *)
(*   table     w:tblGrid column count, rows (w:tr) of cells (w:tc), each   *)
(*             w:tc with its w:vMerge, its w:gridSpan and its paragraphs   *)
(*                                                                         *)
(* Texts are sequences of one-character strings; "\n" is the newline.      *)
(* Sizes in run records are in tenths of a point (10.5pt is 105), so that  *)
(* the half-point storage of w:sz is a real conversion.                    *)
(***************************************************************************)
EXTENDS Integers, Sequences, FiniteSets, TLC

\* ------------------------------------------------------------------------
\* Bounds of the model
\* ------------------------------------------------------------------------
MaxRows == 2
MaxCols == 2
MaxSpan == 2
MaxFlagged == 1

\* ------------------------------------------------------------------------
\* Generic helpers
\* ------------------------------------------------------------------------
RECURSIVE Concat(_)
\* "".join(list of texts)
Concat(ss) == IF ss = <<>> THEN <<>> ELSE Head(ss) \o Concat(Tail(ss))

RECURSIVE JoinNL(_)
\* "\n".join(list of texts)
JoinNL(ss) ==
    IF ss = <<>> THEN <<>>
    ELSE IF Len(ss) = 1 THEN ss[1]
    ELSE ss[1] \o <<"\n">> \o JoinNL(Tail(ss))

\* ------------------------------------------------------------------------
\* Grid occupier values: None, 'INDEX_ERROR' or a coordinate (r, c)
\* ------------------------------------------------------------------------
OccNone == [kind |-> "None", r |-> 0, c |-> 0]
OccIndexError == [kind |-> "INDEX_ERROR", r |-> 0, c |-> 0]
OccCell(r, c) == [kind |-> "cell", r |-> r, c |-> c]

\* ------------------------------------------------------------------------
\* python-docx object model, as used by the code
\* ------------------------------------------------------------------------
\* tc.vMerge == ST_Merge.CONTINUE: <w:vMerge/> and <w:vMerge w:val="continue"/>
TcIsContinue(tc) == tc.vMerge \in {"continue", "noval"}

\* tc.grid_span: 1 without w:gridSpan, else its w:val
TcGridSpan(tc) == IF tc.gridSpan = <<>> THEN 1 ELSE tc.gridSpan[1]

\* Table.iter_tcs(): references <<row, position>> of every w:tc, in document
\* order (rows and positions counted from 1 here)
RECURSIVE IterTcs(_, _, _)
IterTcs(rows, i, j) ==
    IF i > Len(rows) THEN <<>>
    ELSE IF j > Len(rows[i]) THEN IterTcs(rows, i + 1, 1)
    ELSE <<(<<i, j>>)>> \o IterTcs(rows, i, j + 1)

\* One w:tc of Table._cells: appended grid_span times.  A vertical-merge
\* continuation appends the entry one grid row up (cells[-col_count]), a
\* horizontal span repeats the previous entry, otherwise the w:tc itself.
\* cells[-n] raises IndexError unless 1 <= n <= len (and cells[-0] is
\* cells[0]).
RECURSIVE AppendTc(_, _, _, _, _)
AppendTc(acc, tc, ref, col_count, k) ==
    IF acc.err \/ k >= TcGridSpan(tc) THEN acc
    ELSE IF TcIsContinue(tc)
         THEN IF col_count = 0
              THEN IF Len(acc.cells) = 0
                   THEN [acc EXCEPT !.err = TRUE]
                   ELSE AppendTc([acc EXCEPT !.cells = Append(@, acc.cells[1])],
                                 tc, ref, col_count, k + 1)
              ELSE IF col_count > Len(acc.cells)
                   THEN [acc EXCEPT !.err = TRUE]
                   ELSE AppendTc([acc EXCEPT !.cells =
                                     Append(@, acc.cells[Len(acc.cells) - col_count + 1])],
                                 tc, ref, col_count, k + 1)
         ELSE IF k > 0
              THEN AppendTc([acc EXCEPT !.cells = Append(@, acc.cells[Len(acc.cells)])],
                            tc, ref, col_count, k + 1)
              ELSE AppendTc([acc EXCEPT !.cells = Append(@, ref)],
                            tc, ref, col_count, k + 1)

RECURSIVE FlattenTcs(_, _, _, _)
FlattenTcs(acc, rows, refs, col_count) ==
    IF refs = <<>> \/ acc.err THEN acc
    ELSE LET ref == Head(refs)
         IN FlattenTcs(AppendTc(acc, rows[ref[1]][ref[2]], ref, col_count, 0),
                       rows, Tail(refs), col_count)

\* Table._cells: one entry per layout-grid cell; merged grid cells repeat
\* the reference of the w:tc at the origin of the merge
TableCells(table) ==
    FlattenTcs([cells |-> <<>>, err |-> FALSE], table.rows,
               IterTcs(table.rows, 1, 1), table.cols)

\* Table.cell(row_idx, col_idx): self._cells[col_idx + row_idx * column_count];
\* IndexError when the index is past the end of the list
TableCell(table, row_idx, col_idx) ==
    LET flat == TableCells(table)
        cell_idx == col_idx + (row_idx * table.cols)
    IN IF flat.err \/ cell_idx + 1 > Len(flat.cells) \/ cell_idx < -Len(flat.cells)
       THEN [err |-> TRUE, ref |-> <<0, 0>>]
       ELSE IF cell_idx >= 0
            THEN [err |-> FALSE, ref |-> flat.cells[cell_idx + 1]]
            ELSE [err |-> FALSE, ref |-> flat.cells[Len(flat.cells) + cell_idx + 1]]

TcAt(table, ref) == table.rows[ref[1]][ref[2]]

\* len(table.rows), len(table.columns)
NumRows(table) == Len(table.rows)
NumColumns(table) == table.cols

\* doc.paragraphs / doc.tables: the body's direct paragraphs / tables
BodyIndexes(body, kind) == {i \in DOMAIN body : body[i].kind = kind}
\* para_element_map / table_element_map: position among the nodes of its kind
ElementIndex(body, i) ==
    Cardinality({j \in BodyIndexes(body, body[i].kind) : j < i})
\* body position of doc.paragraphs[n] / doc.tables[n] (0 when out of range)
NthOfKind(body, kind, n) ==
    IF \E i \in BodyIndexes(body, kind) : ElementIndex(body, i) = n
    THEN CHOOSE i \in BodyIndexes(body, kind) : ElementIndex(body, i) = n
    ELSE 0

\* ------------------------------------------------------------------------
\* Run formatting codec: extraction side (server.py 225-235, 372-382)
\* ------------------------------------------------------------------------
HexDigits == <<"0", "1", "2", "3", "4", "5", "6", "7", "8", "9",
               "A", "B", "C", "D", "E", "F">>

\* '%02X' of one byte
HexByte(b) == <<HexDigits[(b \div 16) + 1], HexDigits[(b % 16) + 1]>>

\* str(RGBColor): six upper-case hex digits
RgbToString(rgb) == HexByte(rgb[1]) \o HexByte(rgb[2]) \o HexByte(rgb[3])

SizeNone == [k |-> "None", v |-> 0]
SizeNum(v) == [k |-> "num", v |-> v]
ColorNone == [k |-> "None", s |-> <<>>]
ColorStr(s) == [k |-> "str", s |-> s]

\* run.bold if run.bold is not None else False (tri-state to bool)
TriToBool(t) == t = "True"

\* font.size.pt if font.size and hasattr(font.size, 'pt') else None
\* (w:sz is in half-points; a zero Length is falsy)
ExtractSize(sz) == IF sz = 0 THEN SizeNone ELSE SizeNum(sz * 5)

\* str(font.color.rgb) if font.color and font.color.rgb else None
ExtractColor(color) == IF color = <<>> THEN ColorNone ELSE ColorStr(RgbToString(color))

\* one entry of block_info["runs"]
RunInfo(run) ==
    [text |-> run.text,
     bold |-> TriToBool(run.bold),
     italic |-> TriToBool(run.italic),
     underline |-> TriToBool(run.underline),
     font_name |-> run.font_name,
     font_size_pt |-> ExtractSize(run.sz),
     font_color_rgb |-> ExtractColor(run.color)]

RunInfos(para) == [i \in DOMAIN para.runs |-> RunInfo(para.runs[i])]

\* Paragraph.text: the texts of the runs, in order
ParaText(para) == Concat([i \in DOMAIN para.runs |-> para.runs[i].text])

\* ------------------------------------------------------------------------
\* Paragraph blocks (server.py 168-238)
\* ------------------------------------------------------------------------
\* pPr.pageBreakBefore is not None: the element is present, whatever w:val
PbfElementPresent(para) == para.pbf # "absent"

\* any run holds <w:br w:type="page"/>
PageBreakInRun(para) == \E i \in DOMAIN para.runs : para.runs[i].page_br

\* style.name.lower().startswith('heading')
IsHeadingStyle(name) == name \in {"Heading 1", "Heading 2", "heading"}

\* int(last token) if it is all digits else 0
HeadingLevel(name) ==
    IF name = "Heading 1" THEN 1 ELSE IF name = "Heading 2" THEN 2 ELSE 0

\* alignment_map.get(alignment): the six named values, None otherwise
AlignmentNames == {"LEFT", "CENTER", "RIGHT", "JUSTIFY", "DISTRIBUTE", "THAI_JUSTIFY"}
AlignmentName(a) == IF a \in AlignmentNames THEN a ELSE "None"

ParagraphBlock(para, doc_paragraph_index, block_id_counter) ==
    LET base == [id |-> <<"p_block", block_id_counter>>,
                 doc_paragraph_index |-> doc_paragraph_index,
                 overall_block_index |-> block_id_counter,
                 type |-> IF IsHeadingStyle(para.style) THEN "heading" ELSE "paragraph",
                 text |-> ParaText(para),
                 style_name |-> para.style,
                 alignment |-> AlignmentName(para.alignment),
                 page_break_before |-> PbfElementPresent(para) \/ PageBreakInRun(para),
                 runs |-> RunInfos(para)]
    IN IF IsHeadingStyle(para.style)
       THEN [f \in DOMAIN base \cup {"heading_level"} |->
                IF f = "heading_level" THEN HeadingLevel(para.style) ELSE base[f]]
       ELSE base

\* ------------------------------------------------------------------------
\* Table blocks (server.py 240-403)
\* ------------------------------------------------------------------------
\* mutant: the metadata block is numbered by its table, not by the counter
TableMetaBlock_TableNumbered(table, doc_table_index, block_id_counter) ==
    [id |-> <<"table_meta", block_id_counter>>,
     doc_table_index |-> doc_table_index,
     overall_block_index |-> doc_table_index,
     type |-> "table_metadata",
     num_rows |-> NumRows(table),
     num_cols |-> NumColumns(table),
     style_name |-> table.style]

\* server.py 243-261
TableMetaBlock(table, doc_table_index, block_id_counter) ==
    [id |-> <<"table_meta", block_id_counter>>,
     doc_table_index |-> doc_table_index,
     overall_block_index |-> block_id_counter,
     type |-> "table_metadata",
     num_rows |-> NumRows(table),
     num_cols |-> NumColumns(table),
     style_name |-> table.style]

\* len(table.rows[0].cells): the slice of Table._cells for row 0;
\* IndexError when Table._cells cannot be built
FirstRowCellCount(table) ==
    LET flat == TableCells(table)
    IN IF flat.err THEN [err |-> TRUE, n |-> 0]
       ELSE [err |-> FALSE,
             n |-> Cardinality({i \in DOMAIN flat.cells : i <= table.cols})]

\* actual_cols (server.py 266-276)
ActualCols(table) ==
    IF NumColumns(table) = 0 /\ NumRows(table) > 0
    THEN IF FirstRowCellCount(table).err THEN 1 ELSE FirstRowCellCount(table).n
    ELSE IF NumColumns(table) = 0 THEN 1
    ELSE NumColumns(table)

\* [[None for _ in range(actual_cols)] for _ in range(len(rows))]
EmptyGrid(num_rows, actual_cols) ==
    [r \in 0 .. (num_rows - 1) |-> [c \in 0 .. (actual_cols - 1) |-> OccNone]]

\* v_merge_val: w:val of w:vMerge, None without the element or the attribute
VMergeVal(tc) == IF tc.vMerge \in {"absent", "noval"} THEN "None" ELSE tc.vMerge

\* mutant: the test for a missing value is forgotten
IsContinuation_NoNoneCheck(v_merge_val) == v_merge_val # "restart"

\* server.py 302
IsContinuation(v_merge_val) == v_merge_val # "None" /\ v_merge_val # "restart"

\* server.py 306-309
OccupierAbove(grid, r_idx, c_idx) ==
    IF r_idx > 0 /\ grid[r_idx - 1][c_idx].kind = "cell"
    THEN grid[r_idx - 1][c_idx]
    ELSE OccCell(r_idx - 1, c_idx)

\* server.py 314-317
ColSpan(tc) == IF tc.gridSpan # <<>> THEN tc.gridSpan[1] ELSE 1

\* server.py 326: the cell below continues the span
NextContinues(tc) == tc.vMerge # "absent" /\ VMergeVal(tc) # "restart"

\* server.py 322-331
RECURSIVE ScanRowSpan(_, _, _, _)
ScanRowSpan(table, rn_idx, c_idx, rowspan) ==
    IF rn_idx >= NumRows(table) THEN rowspan
    ELSE LET found == TableCell(table, rn_idx, c_idx)
         IN IF found.err THEN rowspan
            ELSE IF NextContinues(TcAt(table, found.ref))
                 THEN ScanRowSpan(table, rn_idx + 1, c_idx, rowspan + 1)
                 ELSE rowspan

\* server.py 319-331
RowSpan(table, tc, r_idx, c_idx) ==
    IF VMergeVal(tc) = "restart" THEN ScanRowSpan(table, r_idx + 1, c_idx, 1) ELSE 1

\* mutant: the last grid column is left out
InBounds_OffByOne(num_rows, actual_cols, r, c) == r < num_rows /\ c < actual_cols - 1

\* mutant: the column bound is not tested
InBounds_RowOnly(num_rows, actual_cols, r, c) == r < num_rows

\* server.py 336
InBounds(num_rows, actual_cols, r, c) == r < num_rows /\ c < actual_cols

\* grid[r][c] can be indexed (a Python list index past the end raises)
Indexable(grid, r, c) == r \in DOMAIN grid /\ c \in DOMAIN grid[r]

\* server.py 337-338: a position is written only while it is still None
MayWrite(occupier) == occupier = OccNone

\* the grid positions the marking loop indexes (server.py 334-337)
SpanIndexed(num_rows, actual_cols, r_idx, c_idx, rowspan, colspan) ==
    {p \in {<<r_idx + ro, c_idx + co>> :
                ro \in 0 .. (rowspan - 1), co \in 0 .. (colspan - 1)} :
        InBounds(num_rows, actual_cols, p[1], p[2])}

\* mutant: only the primary position is marked, not its span
MarkSpan_PrimaryOnly(grid, indexed, r_idx, c_idx) ==
    [r \in DOMAIN grid |-> [c \in DOMAIN grid[r] |->
        IF <<r, c>> = <<r_idx, c_idx>> /\ <<r, c>> \in indexed /\ MayWrite(grid[r][c])
        THEN OccCell(r_idx, c_idx)
        ELSE grid[r][c]]]

\* server.py 334-342
MarkSpan(grid, indexed, r_idx, c_idx) ==
    [r \in DOMAIN grid |-> [c \in DOMAIN grid[r] |->
        IF <<r, c>> \in indexed /\ MayWrite(grid[r][c])
        THEN OccCell(r_idx, c_idx)
        ELSE grid[r][c]]]

\* server.py 345-384, 386-400
CellBlock(tc, doc_table_index, r_idx, c_idx, rowspan, colspan, block_id_counter) ==
    [id |-> <<"tc_block", block_id_counter>>,
     doc_table_index |-> doc_table_index,
     row_index |-> r_idx,
     col_index |-> c_idx,
     row_span |-> rowspan,
     col_span |-> colspan,
     overall_block_index |-> block_id_counter,
     type |-> "table_cell_combined",
     text |-> JoinNL([i \in DOMAIN tc.paras |-> ParaText(tc.paras[i])]),
     style_name |-> IF tc.paras = <<>> THEN "None" ELSE tc.paras[1].style,
     alignment |-> IF tc.paras = <<>> THEN "None" ELSE AlignmentName(tc.paras[1].alignment),
     page_break_before |-> IF tc.paras = <<>> THEN FALSE ELSE PbfElementPresent(tc.paras[1]),
     runs |-> Concat([i \in DOMAIN tc.paras |-> RunInfos(tc.paras[i])])]

\* One pass of the loop body at grid position (r_idx, c_idx), server.py
\* 282-403.  st holds grid, blocks, counter, the positions indexed by the
\* marking loop and whether an uncaught IndexError left the loop.
CellIteration(table, doc_table_index, actual_cols, st, r_idx, c_idx) ==
    IF st.grid[r_idx][c_idx] # OccNone
    THEN [st EXCEPT !.indexed = {}]
    ELSE LET found == TableCell(table, r_idx, c_idx)
         IN IF found.err
            THEN [st EXCEPT !.grid[r_idx][c_idx] = OccIndexError, !.indexed = {}]
            ELSE LET tc == TcAt(table, found.ref)
                 IN IF IsContinuation(VMergeVal(tc))
                    THEN [st EXCEPT !.grid[r_idx][c_idx] =
                                        OccupierAbove(st.grid, r_idx, c_idx),
                                    !.indexed = {}]
                    ELSE LET colspan == ColSpan(tc)
                             rowspan == RowSpan(table, tc, r_idx, c_idx)
                             indexed == SpanIndexed(NumRows(table), actual_cols,
                                                    r_idx, c_idx, rowspan, colspan)
                         IN IF \E p \in indexed : ~Indexable(st.grid, p[1], p[2])
                            THEN [st EXCEPT !.indexed = indexed, !.raised = "IndexError"]
                            ELSE [grid |-> MarkSpan(st.grid, indexed, r_idx, c_idx),
                                  blocks |-> Append(st.blocks,
                                      CellBlock(tc, doc_table_index, r_idx, c_idx,
                                                rowspan, colspan, st.counter)),
                                  counter |-> st.counter + 1,
                                  indexed |-> indexed,
                                  raised |-> st.raised]

\* The loop over the grid from (r_idx, c_idx) to its end (server.py 280-403)
NextR(actual_cols, r_idx, c_idx) == IF c_idx + 1 < actual_cols THEN r_idx ELSE r_idx + 1
NextC(actual_cols, r_idx, c_idx) == IF c_idx + 1 < actual_cols THEN c_idx + 1 ELSE 0

RECURSIVE CellLoop(_, _, _, _, _, _)
CellLoop(table, doc_table_index, actual_cols, st, r_idx, c_idx) ==
    IF r_idx >= NumRows(table) \/ actual_cols <= 0 \/ st.raised # "none" THEN st
    ELSE CellLoop(table, doc_table_index, actual_cols,
                  CellIteration(table, doc_table_index, actual_cols, st, r_idx, c_idx),
                  NextR(actual_cols, r_idx, c_idx), NextC(actual_cols, r_idx, c_idx))

\* The loop over the body from child_pos to its end (server.py 167-405)
RECURSIVE BodyLoop(_, _, _)
BodyLoop(body, child_pos, st) ==
    IF child_pos > Len(body) \/ st.raised # "none" THEN st
    ELSE LET child == body[child_pos]
         IN IF child.kind = "p"
            THEN BodyLoop(body, child_pos + 1,
                     [st EXCEPT !.blocks = Append(@,
                                    ParagraphBlock(child, ElementIndex(body, child_pos),
                                                   st.counter)),
                                !.counter = @ + 1])
            ELSE IF child.kind = "tbl"
            THEN BodyLoop(body, child_pos + 1,
                     CellLoop(child, ElementIndex(body, child_pos), ActualCols(child),
                              [st EXCEPT !.blocks = Append(@,
                                             TableMetaBlock(child,
                                                 ElementIndex(body, child_pos), st.counter)),
                                         !.counter = @ + 1,
                                         !.grid = EmptyGrid(NumRows(child), ActualCols(child))],
                              0, 0))
            ELSE BodyLoop(body, child_pos + 1, st)

\* get_structured_document_content_internal on an open document, as a whole
ExtractAll(doc) ==
    BodyLoop(doc.body, 1,
             [grid |-> EmptyGrid(0, 0), blocks |-> <<>>, counter |-> 0,
              indexed |-> {}, raised |-> "none"]).blocks

\* ------------------------------------------------------------------------
\* Run formatting codec: application side (server.py 427-447, 450-470)
\* ------------------------------------------------------------------------
LowerHexDigits == <<"a", "b", "c", "d", "e", "f">>

\* value of one hex digit, -1 for any other character
HexValue(ch) ==
    IF \E i \in DOMAIN HexDigits : HexDigits[i] = ch
    THEN (CHOOSE i \in DOMAIN HexDigits : HexDigits[i] = ch) - 1
    ELSE IF \E i \in DOMAIN LowerHexDigits : LowerHexDigits[i] = ch
    THEN (CHOOSE i \in DOMAIN LowerHexDigits : LowerHexDigits[i] = ch) + 9
    ELSE -1

\* all(c in '0123456789abcdefABCDEF' for c in s)
AllHex(s) == \A i \in DOMAIN s : HexValue(s[i]) >= 0

RECURSIVE HexNumber(_, _)
HexNumber(s, acc) ==
    IF s = <<>> THEN acc ELSE HexNumber(Tail(s), (acc * 16) + HexValue(Head(s)))

\* str.strip(): blanks removed at both ends
RECURSIVE Strip(_)
Strip(s) ==
    IF s = <<>> THEN s
    ELSE IF Head(s) = " " THEN Strip(Tail(s))
    ELSE IF s[Len(s)] = " " THEN Strip(SubSeq(s, 1, Len(s) - 1))
    ELSE s

\* int(part.strip(), 16): ValueError unless one or more hex digits
ParseHexPart(part) ==
    LET t == Strip(part)
    IN IF t # <<>> /\ AllHex(t) THEN [err |-> FALSE, v |-> HexNumber(t, 0)]
       ELSE [err |-> TRUE, v |-> 0]

\* str.split(','): always at least one part
RECURSIVE SplitComma(_, _)
SplitComma(s, cur) ==
    IF s = <<>> THEN <<cur>>
    ELSE IF Head(s) = "," THEN <<cur>> \o SplitComma(Tail(s), <<>>)
    ELSE SplitComma(Tail(s), Append(cur, Head(s)))

\* color_str.replace("RGBColor(", "").replace(")", "").split(',')
ColorParts(s) ==
    SplitComma(SelectSeq(s, LAMBDA ch : ch \notin {"RGBColor(", ")"}), <<>>)

\* RGBColor(r, g, b): ValueError unless each is in 0..255
ByteOk(v) == v >= 0 /\ v <= 255

\* server.py 441-443: the parenthesized form.  The three parts are read and
\* converted left to right; a missing part is an IndexError, which
\* "except ValueError" does not catch.
ParenColor(s) ==
    LET parts == ColorParts(s)
        p1 == ParseHexPart(parts[1])
    IN IF p1.err THEN [act |-> "skip", rgb |-> <<>>]
       ELSE IF Len(parts) < 2 THEN [act |-> "IndexError", rgb |-> <<>>]
       ELSE IF ParseHexPart(parts[2]).err THEN [act |-> "skip", rgb |-> <<>>]
       ELSE IF Len(parts) < 3 THEN [act |-> "IndexError", rgb |-> <<>>]
       ELSE IF ParseHexPart(parts[3]).err THEN [act |-> "skip", rgb |-> <<>>]
       ELSE LET rgb == <<p1.v, ParseHexPart(parts[2]).v, ParseHexPart(parts[3]).v>>
            IN IF ByteOk(rgb[1]) /\ ByteOk(rgb[2]) /\ ByteOk(rgb[3])
               THEN [act |-> "set", rgb |-> rgb]
               ELSE [act |-> "skip", rgb |-> <<>>]

\* RGBColor.from_string(six hex digits)
RgbFromString(s) ==
    <<HexNumber(SubSeq(s, 1, 2), 0), HexNumber(SubSeq(s, 3, 4), 0),
      HexNumber(SubSeq(s, 5, 6), 0)>>

\* server.py 438-447: what a font_color_rgb value does to the run
ColorAction(color) ==
    IF color.k = "None" \/ color.s = <<>> THEN [act |-> "skip", rgb |-> <<>>]
    ELSE IF Head(color.s) = "RGBColor(" THEN ParenColor(color.s)
    ELSE IF Len(color.s) = 6 /\ AllHex(color.s)
         THEN [act |-> "set", rgb |-> RgbFromString(color.s)]
    ELSE [act |-> "skip", rgb |-> <<>>]

\* run.text = text: "\r" is stored as a line break, like "\n"
StoredText(text) == [i \in DOMAIN text |-> IF text[i] = "\r" THEN "\n" ELSE text[i]]

\* para.add_run(text)
NewRun(text) ==
    [text |-> StoredText(text), bold |-> "None", italic |-> "None", underline |-> "None",
     font_name |-> <<>>, sz |-> 0, color |-> <<>>, page_br |-> FALSE]

\* run.bold = True / False
BoolToTri(b) == IF b THEN "True" ELSE "False"

\* mutant: the size is cut to whole points
HalfPoints_WholePoints(tenths) == (tenths \div 10) * 2

\* font.size = Pt(points): w:sz holds int(points * 2) half-points
HalfPoints(tenths) == tenths \div 5

\* server.py 429-447 and 450-470: one run added and formatted from r_info.
\* A size that is not a number raises in Pt(); the run is already in the
\* paragraph by then.
AddFormattedRun(text, r_info) ==
    LET r1 == [NewRun(text) EXCEPT !.bold = BoolToTri(r_info.bold),
                                   !.italic = BoolToTri(r_info.italic),
                                   !.underline = BoolToTri(r_info.underline)]
        r2 == IF r_info.font_name # <<>> /\ r_info.font_name # <<"">>
              THEN [r1 EXCEPT !.font_name = r_info.font_name] ELSE r1
        sized == r_info.font_size_pt.k = "num" /\ r_info.font_size_pt.v # 0
        r3 == IF sized THEN [r2 EXCEPT !.sz = HalfPoints(r_info.font_size_pt.v)] ELSE r2
        col == ColorAction(r_info.font_color_rgb)
    IN IF r_info.font_size_pt.k = "str"
       THEN [run |-> r2, raised |-> "ValueError"]
       ELSE IF col.act = "IndexError" THEN [run |-> r3, raised |-> "IndexError"]
       ELSE IF col.act = "set" THEN [run |-> [r3 EXCEPT !.color = col.rgb], raised |-> "none"]
       ELSE [run |-> r3, raised |-> "none"]

\* server.py 427-447: the original runs are re-applied one by one
RECURSIVE ReapplyRuns(_, _)
ReapplyRuns(acc, infos) ==
    IF infos = <<>> \/ acc.raised # "none" THEN acc
    ELSE LET added == AddFormattedRun(Head(infos).text, Head(infos))
         IN ReapplyRuns([runs |-> Append(acc.runs, added.run), raised |-> added.raised],
                        Tail(infos))

\* server.py 422
OriginalFullText(original_runs_info) ==
    Concat([i \in DOMAIN original_runs_info |-> original_runs_info[i].text])

\* server.py 425
TextUnchanged(new_text, original_runs_info) ==
    new_text = OriginalFullText(original_runs_info) /\ original_runs_info # <<>>

\* server.py 422-470: the runs of the paragraph after it was cleared
PopulateRuns(new_text, original_runs_info) ==
    IF TextUnchanged(new_text, original_runs_info)
    THEN ReapplyRuns([runs |-> <<>>, raised |-> "none"], original_runs_info)
    ELSE IF original_runs_info # <<>>
         THEN LET added == AddFormattedRun(new_text, original_runs_info[1])
              IN [runs |-> <<added.run>>, raised |-> added.raised]
         ELSE [runs |-> <<NewRun(new_text)>>, raised |-> "none"]

\* names of self.current_document.styles
KnownStyles == {"Normal", "Heading 1", "Heading 2", "heading", "TableGrid"}

\* server.py 473-483
StyleAfter(style, original_para_style_name) ==
    IF original_para_style_name # <<>> /\ original_para_style_name # <<"">>
          /\ original_para_style_name[1] \in KnownStyles
    THEN original_para_style_name[1] ELSE style

\* str.upper() of the alignment names in use
UpperName(a) ==
    IF a = "left" THEN "LEFT" ELSE IF a = "center" THEN "CENTER"
    ELSE IF a = "right" THEN "RIGHT" ELSE IF a = "justify" THEN "JUSTIFY" ELSE a

\* server.py 486-495
AlignmentAfter(alignment, original_para_alignment) ==
    IF original_para_alignment # <<>> /\ original_para_alignment # <<"">>
          /\ UpperName(original_para_alignment[1]) \in AlignmentNames
    THEN UpperName(original_para_alignment[1]) ELSE alignment

\* server.py 498-502: paragraph_format.page_break_before = True / False writes
\* the w:pageBreakBefore element, with w:val="0" for False
PbfAfter(pbf, original_page_break_before) ==
    IF original_page_break_before = "True" THEN "on"
    ELSE IF original_page_break_before = "False" THEN "off"
    ELSE pbf

\* _apply_formatting_to_paragraph (server.py 410-502).  When a run record
\* raises, the paragraph keeps what was done up to there and the
\* paragraph-level settings are not reached.
\* server.py 472-502: the paragraph-level settings, reached when no run
\* record raised
ParagraphSettings(para, populated, args) ==
    IF populated.raised # "none"
    THEN [para |-> [para EXCEPT !.runs = populated.runs], raised |-> populated.raised]
    ELSE [para |-> [para EXCEPT
                       !.runs = populated.runs,
                       !.style = StyleAfter(@, args.original_para_style_name),
                       !.alignment = AlignmentAfter(@, args.original_para_alignment),
                       !.pbf = PbfAfter(@, args.original_page_break_before)],
          raised |-> "none"]

ApplyFormattingToParagraph(para, args) ==
    ParagraphSettings(para, PopulateRuns(args.new_text, args.original_runs_info), args)

\* ------------------------------------------------------------------------
\* Block edit (server.py 504-583)
\* ------------------------------------------------------------------------
\* cell.add_paragraph(): an empty paragraph in the default style
NewParagraph ==
    [kind |-> "p", style |-> "Normal", alignment |-> "None", pbf |-> "absent",
     runs |-> <<>>]

\* server.py 531
ParagraphIndexOk(body, doc_paragraph_index) ==
    0 <= doc_paragraph_index /\ doc_paragraph_index < Cardinality(BodyIndexes(body, "p"))

\* server.py 528: the paragraph locator is given
IsParagraphEdit(args) == args.doc_paragraph_index # <<>>

\* server.py 543: the table locator is complete
IsTableCellEdit(args) ==
    args.doc_table_index # <<>> /\ args.row_index # <<>> /\ args.col_index # <<>>

\* server.py 528-541
ParagraphEdited(doc, pos, applied) ==
    [doc |-> [doc EXCEPT !.body[pos] = applied.para], raised |-> applied.raised]

\* server.py 532-538
EditParagraphAt(doc, pos, args) ==
    ParagraphEdited(doc, pos, ApplyFormattingToParagraph(doc.body[pos], args))

\* server.py 528-541
EditParagraph(doc, args) ==
    IF ParagraphIndexOk(doc.body, args.doc_paragraph_index[1])
    THEN EditParagraphAt(doc, NthOfKind(doc.body, "p", args.doc_paragraph_index[1]), args)
    ELSE [doc |-> doc, raised |-> "IndexError"]

\* server.py 547
TableIndexOk(body, doc_table_index) ==
    0 <= doc_table_index /\ doc_table_index < Cardinality(BodyIndexes(body, "tbl"))

\* server.py 549
RowIndexOk(table, row_index) == 0 <= row_index /\ row_index < NumRows(table)

\* mutant: the column count itself is accepted
ColIndexOk_Inclusive(table, col_index) == 0 <= col_index /\ col_index <= NumColumns(table)

\* server.py 550
ColIndexOk(table, col_index) == 0 <= col_index /\ col_index < NumColumns(table)

\* server.py 558-570: the paragraphs of the cell are removed, one is added
\* and formatted
CellEdited(doc, pos, ref, applied) ==
    [doc |-> [doc EXCEPT !.body[pos].rows[ref[1]][ref[2]].paras = <<applied.para>>],
     raised |-> applied.raised]

\* server.py 551-570
CellFound(doc, pos, found, args) ==
    IF found.err THEN [doc |-> doc, raised |-> "IndexError"]
    ELSE CellEdited(doc, pos, found.ref, ApplyFormattingToParagraph(NewParagraph, args))

\* server.py 548-576
EditTableAt(doc, pos, args) ==
    IF ~RowIndexOk(doc.body[pos], args.row_index[1])
    THEN [doc |-> doc, raised |-> "IndexError"]
    ELSE IF ~ColIndexOk(doc.body[pos], args.col_index[1])
    THEN [doc |-> doc, raised |-> "IndexError"]
    ELSE CellFound(doc, pos,
                   TableCell(doc.body[pos], args.row_index[1], args.col_index[1]), args)

\* server.py 543-579
EditTableCell(doc, args) ==
    IF ~TableIndexOk(doc.body, args.doc_table_index[1])
    THEN [doc |-> doc, raised |-> "IndexError"]
    ELSE EditTableAt(doc, NthOfKind(doc.body, "tbl", args.doc_table_index[1]), args)

\* mutant: the test for an open document is left out
EditBlockContentInternal_NoOpenTest(doc, args) ==
    IF IsParagraphEdit(args) THEN EditParagraph(doc, args)
    ELSE IF IsTableCellEdit(args) THEN EditTableCell(doc, args)
    ELSE [doc |-> doc, raised |-> "ValueError"]

\* edit_block_content_internal (server.py 504-583)
EditBlockContentInternal(doc, args) ==
    IF ~doc.open THEN [doc |-> doc, raised |-> "ValueError"]
    ELSE IF IsParagraphEdit(args) THEN EditParagraph(doc, args)
    ELSE IF IsTableCellEdit(args) THEN EditTableCell(doc, args)
    ELSE [doc |-> doc, raised |-> "ValueError"]

\* data.get("new_text") of a request without the key
NoText == <<"None">>

\* server.py 711-716: the response after the call returned or raised
HttpResponse(res) ==
    IF res.raised = "none"
    THEN [doc |-> res.doc, status |-> "success", code |-> 200, raised |-> "none"]
    ELSE [doc |-> res.doc, status |-> "error", code |-> 400, raised |-> res.raised]

\* http_edit_block_content (server.py 650-720): the response and the document
HttpEditBlockContent(doc, data) ==
    IF data.new_text = NoText
    THEN [doc |-> doc, status |-> "error", code |-> 400, raised |-> "none"]
    ELSE IF ~IsParagraphEdit(data) /\ ~IsTableCellEdit(data)
    THEN [doc |-> doc, status |-> "error", code |-> 400, raised |-> "none"]
    ELSE IF IsParagraphEdit(data) /\ IsTableCellEdit(data)
    THEN [doc |-> doc, status |-> "error", code |-> 400, raised |-> "none"]
    ELSE IF ~doc.open
    THEN [doc |-> doc, status |-> "error", code |-> 400, raised |-> "none"]
    ELSE HttpResponse(EditBlockContentInternal(doc,
             [data EXCEPT !.original_page_break_before =
                              IF @ = "None" THEN "False" ELSE @]))

\* ------------------------------------------------------------------------
\* State
\* ------------------------------------------------------------------------
VARIABLES
    current_document,     \* self.current_document: [open, body]
    pc,                   \* "idle", or where the extraction pass stands
    child_pos,            \* position of child_element in doc.element.body
    content_blocks,       \* content_blocks of the running pass
    block_id_counter,     \* block_id_counter of the running pass
    grid_cell_occupier,   \* grid_cell_occupier of the table being processed
    actual_cols,          \* actual_cols of the table being processed
    r_idx,                \* loop variables of the grid iteration
    c_idx,
    span_indexed,         \* grid positions indexed by the last marking loop
    outcome,              \* what the last finished operation returned or raised
    edits,                \* number of block edits made so far
    current_file_path,    \* self.current_file_path: <<>> for None, or <<path>>
    documents             \* keys of self.documents

vars == <<current_document, pc, child_pos, content_blocks, block_id_counter,
          grid_cell_occupier, actual_cols, r_idx, c_idx, span_indexed, outcome, edits,
          current_file_path, documents>>

pass_vars == <<child_pos, content_blocks, block_id_counter, grid_cell_occupier,
               actual_cols, r_idx, c_idx, span_indexed>>

NoOutcome == [op |-> "none", status |-> "none"]

\* ------------------------------------------------------------------------
\* Documents
\* ------------------------------------------------------------------------
DefaultRun ==
    [text |-> <<"a">>, bold |-> "None", italic |-> "None", underline |-> "None",
     font_name |-> <<>>, sz |-> 0, color |-> <<>>, page_br |-> FALSE]

DefaultPara ==
    [kind |-> "p", style |-> "Normal", alignment |-> "None", pbf |-> "absent",
     runs |-> <<DefaultRun>>]

DefaultMerge == [vMerge |-> "absent", gridSpan |-> <<>>]

Tc(merge, paras) == [vMerge |-> merge.vMerge, gridSpan |-> merge.gridSpan, paras |-> paras]

Tbl(cols, rows) == [kind |-> "tbl", cols |-> cols, rows |-> rows, style |-> "TableGrid"]

Doc(body) == [open |-> TRUE, body |-> body]

\* merge descriptors a w:tc can declare: a vertical-merge flag, a horizontal
\* span, or a span of two or more together with a restart or a continuation
Merges ==
    [vMerge : {"absent", "restart", "continue", "noval"}, gridSpan : {<<>>}]
        \cup [vMerge : {"absent"}, gridSpan : {<<n>> : n \in 0 .. MaxSpan}]
        \cup [vMerge : {"restart", "continue"}, gridSpan : {<<n>> : n \in 2 .. MaxSpan}]

\* a grid column for which the row holds no w:tc
Omitted == [vMerge |-> "omitted", gridSpan |-> <<>>]

\* a row of w:tc from one descriptor per grid column
RowOf(descs) ==
    LET kept == SelectSeq(descs, LAMBDA d : d # Omitted)
    IN [j \in DOMAIN kept |-> Tc(kept[j], <<DefaultPara>>)]

\* tables of up to MaxRows rows and MaxCols grid columns, one plain w:tc per
\* grid position, except that at most MaxFlagged positions declare a merge
\* descriptor or hold no w:tc at all
FlaggedTable(cols, num_rows, flags) ==
    Tbl(cols, [i \in 1 .. num_rows |->
                  RowOf([j \in 1 .. cols |->
                            IF <<i, j>> \in DOMAIN flags THEN flags[<<i, j>>]
                            ELSE DefaultMerge])])

FlagChoices == (Merges \cup {Omitted}) \ {DefaultMerge}

FlaggedSets(cols, num_rows) ==
    {S \in SUBSET ((1 .. num_rows) \X (1 .. cols)) : Cardinality(S) <= MaxFlagged}

\* a table with one well-formed merge: the rectangle of k rows and w columns
\* whose top-left grid position is (r0, c0), written the way Word writes it
\* (one w:tc per rectangle row, carrying w:gridSpan and w:vMerge)
RectMergeTable(cols, num_rows, r0, c0, k, w) ==
    Tbl(cols, [i \in 1 .. num_rows |->
                  RowOf([j \in 1 .. cols |->
                            IF i - 1 \in r0 .. (r0 + k - 1) /\ j - 1 \in c0 .. (c0 + w - 1)
                            THEN IF j - 1 > c0 THEN Omitted
                                 ELSE [vMerge |-> IF k = 1 THEN "absent"
                                                  ELSE IF i - 1 = r0 THEN "restart"
                                                  ELSE "continue",
                                       gridSpan |-> IF w = 1 THEN <<>> ELSE <<w>>]
                            ELSE DefaultMerge])])

Rects(cols, num_rows) ==
    {q \in (0 .. num_rows) \X (0 .. cols) \X (1 .. num_rows) \X (1 .. cols) :
        q[1] + q[3] <= num_rows /\ q[2] + q[4] <= cols}

\* the 3x3 table whose cell (0,0) is merged over rows 0-1 and columns 0-1
Plain == Tc(DefaultMerge, <<DefaultPara>>)
Table3x3 ==
    Tbl(3, << <<Tc([vMerge |-> "restart", gridSpan |-> <<2>>], <<DefaultPara>>), Plain>>,
              <<Tc([vMerge |-> "continue", gridSpan |-> <<2>>], <<>>), Plain>>,
              <<Plain, Plain, Plain>> >>)

\* ------------------------------------------------------------------------
\* Extraction pass, step by step (get_structured_document_content_internal)
\* ------------------------------------------------------------------------
\* server.py 154-166
\* mutant: the counter of the call before is carried on
ExtractBegin_KeepsCounter ==
    /\ pc = "idle"
    /\ IF ~current_document.open
       THEN /\ outcome' = [op |-> "extract", status |-> "ValueError"]
            /\ UNCHANGED <<pc, pass_vars>>
       ELSE /\ pc' = "body"
            /\ child_pos' = 1
            /\ content_blocks' = <<>>
            /\ UNCHANGED <<block_id_counter, outcome>>
            /\ UNCHANGED <<grid_cell_occupier, actual_cols, r_idx, c_idx, span_indexed>>
    /\ UNCHANGED current_document
    /\ UNCHANGED <<edits, current_file_path, documents>>

\* server.py 154-160: the call starts from an empty list and counter 0; what
\* the call before returned stays with its caller until this call returns
ExtractBegin ==
    /\ pc = "idle"
    /\ IF ~current_document.open
       THEN /\ outcome' = [op |-> "extract", status |-> "ValueError"]
            /\ UNCHANGED <<pc, pass_vars>>
       ELSE /\ pc' = "body"
            /\ child_pos' = 1
            /\ content_blocks' = <<>>
            /\ block_id_counter' = 0
            /\ UNCHANGED outcome
            /\ UNCHANGED <<grid_cell_occupier, actual_cols, r_idx, c_idx, span_indexed>>
    /\ UNCHANGED current_document
    /\ UNCHANGED <<edits, current_file_path, documents>>

\* server.py 168-238
ExtractParagraph ==
    /\ pc = "body"
    /\ child_pos <= Len(current_document.body)
    /\ current_document.body[child_pos].kind = "p"
    /\ content_blocks' = Append(content_blocks,
           ParagraphBlock(current_document.body[child_pos],
                          ElementIndex(current_document.body, child_pos),
                          block_id_counter))
    /\ block_id_counter' = block_id_counter + 1
    /\ child_pos' = child_pos + 1
    /\ UNCHANGED <<current_document, pc, grid_cell_occupier, actual_cols, r_idx, c_idx,
                   span_indexed, outcome>>
    /\ UNCHANGED <<edits, current_file_path, documents>>

\* server.py 240-278
ExtractTableBegin ==
    /\ pc = "body"
    /\ child_pos <= Len(current_document.body)
    /\ current_document.body[child_pos].kind = "tbl"
    /\ LET table == current_document.body[child_pos]
       IN /\ content_blocks' = Append(content_blocks,
                 TableMetaBlock(table, ElementIndex(current_document.body, child_pos),
                                block_id_counter))
          /\ block_id_counter' = block_id_counter + 1
          /\ actual_cols' = ActualCols(table)
          /\ grid_cell_occupier' = EmptyGrid(NumRows(table), ActualCols(table))
          /\ r_idx' = IF ActualCols(table) > 0 THEN 0 ELSE NumRows(table)
          /\ c_idx' = 0
    /\ span_indexed' = {}
    /\ pc' = "cells"
    /\ UNCHANGED <<current_document, child_pos, outcome>>
    /\ UNCHANGED <<edits, current_file_path, documents>>

\* server.py 280-403: the loop body at (r_idx, c_idx)
ExtractCell ==
    /\ pc = "cells"
    /\ r_idx < NumRows(current_document.body[child_pos])
    /\ LET table == current_document.body[child_pos]
           st == CellIteration(table, ElementIndex(current_document.body, child_pos),
                               actual_cols,
                               [grid |-> grid_cell_occupier, blocks |-> content_blocks,
                                counter |-> block_id_counter, indexed |-> {},
                                raised |-> "none"],
                               r_idx, c_idx)
       IN /\ grid_cell_occupier' = st.grid
          /\ content_blocks' = st.blocks
          /\ block_id_counter' = st.counter
          /\ span_indexed' = st.indexed
          /\ IF st.raised # "none"
             THEN /\ pc' = "idle"
                  /\ outcome' = [op |-> "extract", status |-> st.raised]
                  /\ UNCHANGED <<r_idx, c_idx>>
             ELSE /\ r_idx' = NextR(actual_cols, r_idx, c_idx)
                  /\ c_idx' = NextC(actual_cols, r_idx, c_idx)
                  /\ UNCHANGED <<pc, outcome>>
    /\ UNCHANGED <<current_document, child_pos, actual_cols>>
    /\ UNCHANGED <<edits, current_file_path, documents>>

\* server.py 280: the grid iteration is over, on to the next body node
ExtractTableEnd ==
    /\ pc = "cells"
    /\ r_idx >= NumRows(current_document.body[child_pos])
    /\ pc' = "body"
    /\ child_pos' = child_pos + 1
    /\ UNCHANGED <<current_document, content_blocks, block_id_counter, grid_cell_occupier,
                   actual_cols, r_idx, c_idx, span_indexed, outcome>>
    /\ UNCHANGED <<edits, current_file_path, documents>>

\* server.py 404-405
ExtractSkip ==
    /\ pc = "body"
    /\ child_pos <= Len(current_document.body)
    /\ current_document.body[child_pos].kind \notin {"p", "tbl"}
    /\ child_pos' = child_pos + 1
    /\ UNCHANGED <<current_document, pc, content_blocks, block_id_counter,
                   grid_cell_occupier, actual_cols, r_idx, c_idx, span_indexed, outcome>>
    /\ UNCHANGED <<edits, current_file_path, documents>>

\* server.py 407-408
ExtractReturn ==
    /\ pc = "body"
    /\ child_pos > Len(current_document.body)
    /\ pc' = "idle"
    /\ outcome' = [op |-> "extract", status |-> "ok", blocks |-> content_blocks]
    /\ UNCHANGED <<current_document, pass_vars>>
    /\ UNCHANGED <<edits, current_file_path, documents>>

PassInit ==
    /\ pc = "idle"
    /\ child_pos = 0
    /\ content_blocks = <<>>
    /\ block_id_counter = 0
    /\ grid_cell_occupier = EmptyGrid(0, 0)
    /\ actual_cols = 0
    /\ r_idx = 0
    /\ c_idx = 0
    /\ span_indexed = {}
    /\ outcome = NoOutcome
    /\ edits = 0
    /\ current_file_path \in (IF current_document.open THEN {<<"a.docx">>}
                               ELSE {<<>>, <<"a.docx">>})
    /\ documents = IF current_document.open THEN {"a.docx"} ELSE {}

\* ------------------------------------------------------------------------
\* Documents and requests of the edit specification
\* ------------------------------------------------------------------------
MaxEdits == 1

RunA == DefaultRun

RunB ==
    [text |-> <<"b", "c">>, bold |-> "True", italic |-> "False", underline |-> "None",
     font_name |-> <<"Arial">>, sz |-> 21, color |-> <<255, 0, 171>>, page_br |-> FALSE]

\* a run holding a page-type break and no text
RunBreak == [DefaultRun EXCEPT !.text = <<>>, !.page_br = TRUE]

ParaTwoRuns == [DefaultPara EXCEPT !.runs = <<RunA, RunB>>]

ParaHeading ==
    [kind |-> "p", style |-> "Heading 1", alignment |-> "CENTER", pbf |-> "on",
     runs |-> <<RunB>>]

ParaBreak == [DefaultPara EXCEPT !.runs = <<RunBreak, RunA>>]

ParaEmpty == [DefaultPara EXCEPT !.runs = <<>>]

Other == [kind |-> "other"]

\* one column, two rows: a cell of two paragraphs above a cell of none
TableTwoCells ==
    Tbl(1, << <<Tc(DefaultMerge, <<ParaTwoRuns, ParaHeading>>)>>,
              <<Tc(DefaultMerge, <<>>)>> >>)

\* two columns declared, one w:tc in the only row
TableRagged == Tbl(2, << <<Plain>> >>)

NoDocument == [open |-> FALSE, body |-> <<>>]

Documents ==
    { Doc(<<ParaTwoRuns, ParaHeading, Other, ParaBreak>>),
      Doc(<<ParaBreak, TableTwoCells, ParaEmpty>>),
      Doc(<<TableTwoCells, Other, RectMergeTable(2, 2, 0, 0, 2, 1), ParaTwoRuns>>),
      Doc(<<TableRagged, ParaHeading>>),
      Doc(<<>>),
      NoDocument }

InfoPlain(text) ==
    [text |-> text, bold |-> FALSE, italic |-> FALSE, underline |-> FALSE,
     font_name |-> <<>>, font_size_pt |-> SizeNone, font_color_rgb |-> ColorNone]

\* a size that is not a number
SizeStr == [k |-> "str", v |-> 0]

\* run lists a caller can send that no extraction returns
OtherRunLists ==
    { <<[InfoPlain(<<"m">>) EXCEPT !.font_size_pt = SizeStr]>>,
      <<InfoPlain(<<"m">>), [InfoPlain(<<"n">>) EXCEPT !.font_size_pt = SizeStr]>>,
      <<[InfoPlain(<<"m">>) EXCEPT !.font_color_rgb =
            ColorStr(<<"RGBColor(", "F", "F", ")">>)], InfoPlain(<<"n">>)>>,
      <<[InfoPlain(<<"m">>) EXCEPT !.font_color_rgb =
            ColorStr(<<"RGBColor(", "F", "F", ",", " ", "0", "0", ",", "1", "0", ")">>)]>>,
      <<[InfoPlain(<<"m">>) EXCEPT !.font_color_rgb =
            ColorStr(<<"RGBColor(", "1", "F", "F", ",", "0", ",", "0", ")">>)]>>,
      <<[InfoPlain(<<"m">>) EXCEPT !.font_color_rgb =
            ColorStr(<<"f", "f", "0", "0", "a", "b">>)]>>,
      <<[InfoPlain(<<"m">>) EXCEPT !.font_color_rgb =
            ColorStr(<<"G", "G", "0", "0", "0", "0">>)]>>,
      <<[InfoPlain(<<"m">>) EXCEPT !.font_size_pt = SizeNum(103)]>> }

ChangedText == <<"x", "\n", "y">>

\* a text with a carriage return before the line feed
CarriageText == <<"x", "\r", "\n", "y">>

NoOverrides ==
    [original_para_style_name |-> <<>>, original_para_alignment |-> <<>>,
     original_page_break_before |-> "None"]

Overrides ==
    { NoOverrides,
      [NoOverrides EXCEPT !.original_page_break_before = "True"],
      [NoOverrides EXCEPT !.original_page_break_before = "False"],
      [NoOverrides EXCEPT !.original_para_style_name = <<"Heading 2">>],
      [NoOverrides EXCEPT !.original_para_style_name = <<"Bogus">>],
      [NoOverrides EXCEPT !.original_para_alignment = <<"center">>] }

NoLocator ==
    [doc_paragraph_index |-> <<>>, doc_table_index |-> <<>>, row_index |-> <<>>,
     col_index |-> <<>>]

ParagraphLocator(n) == [NoLocator EXCEPT !.doc_paragraph_index = <<n>>]

CellLocator(t, r, c) ==
    [NoLocator EXCEPT !.doc_table_index = <<t>>, !.row_index = <<r>>, !.col_index = <<c>>]

\* the locator a client takes from an extracted block
LocatorOf(block) ==
    IF block.type = "table_cell_combined"
    THEN CellLocator(block.doc_table_index, block.row_index, block.col_index)
    ELSE ParagraphLocator(block.doc_paragraph_index)

Request(locator, new_text, original_runs_info, overrides) ==
    [new_text |-> new_text,
     original_runs_info |-> original_runs_info,
     doc_paragraph_index |-> locator.doc_paragraph_index,
     doc_table_index |-> locator.doc_table_index,
     row_index |-> locator.row_index,
     col_index |-> locator.col_index,
     original_para_style_name |-> overrides.original_para_style_name,
     original_para_alignment |-> overrides.original_para_alignment,
     original_page_break_before |-> overrides.original_page_break_before]

\* the editable blocks of the document: paragraphs, headings and cells
EditableBlocks(doc) ==
    SelectSeq(ExtractAll(doc), LAMBDA b : b.type # "table_metadata")

\* the first paragraph block and the first cell block of bs
FirstBlocks(bs) ==
    {bs[i] : i \in {j \in DOMAIN bs :
                       \A k \in 1 .. (j - 1) :
                           (bs[k].type = "table_cell_combined")
                               # (bs[j].type = "table_cell_combined")}}

\* locators that do not address a block: an index out of range, both kinds
\* of locator, or no complete locator
BadLocators(doc) ==
    LET np == Cardinality(BodyIndexes(doc.body, "p"))
        nt == Cardinality(BodyIndexes(doc.body, "tbl"))
        first == IF nt > 0 THEN doc.body[NthOfKind(doc.body, "tbl", 0)] ELSE Tbl(0, <<>>)
    IN { ParagraphLocator(-1), ParagraphLocator(np),
         CellLocator(-1, 0, 0), CellLocator(nt, 0, 0),
         CellLocator(0, -1, 0), CellLocator(0, NumRows(first), 0),
         CellLocator(0, 0, -1), CellLocator(0, 0, NumColumns(first)),
         [CellLocator(0, 0, 0) EXCEPT !.doc_paragraph_index = <<0>>],
         [CellLocator(nt, 0, 0) EXCEPT !.doc_paragraph_index = <<0>>],
         NoLocator,
         [NoLocator EXCEPT !.doc_table_index = <<0>>, !.row_index = <<0>>],
         [NoLocator EXCEPT !.row_index = <<0>>, !.col_index = <<0>>] }

\* requests that address one of the blocks bs
BlockRequests(bs) ==
    { Request(LocatorOf(bs[i]), OriginalFullText(bs[i].runs), bs[i].runs, ov) :
         i \in DOMAIN bs, ov \in Overrides }
    \cup { Request(LocatorOf(bs[i]), ChangedText, bs[i].runs, NoOverrides) : i \in DOMAIN bs }
    \cup { Request(LocatorOf(bs[i]), ChangedText, <<>>, NoOverrides) : i \in DOMAIN bs }
    \cup { Request(LocatorOf(bs[i]), CarriageText, <<>>, NoOverrides) : i \in DOMAIN bs }

\* requests whose run list is not an extracted one, on the blocks bs
OtherRunRequests(bs) ==
    { Request(LocatorOf(b), OriginalFullText(runs), runs, NoOverrides) :
         b \in bs, runs \in OtherRunLists }
    \cup { Request(LocatorOf(b), ChangedText, runs, NoOverrides) :
              b \in bs, runs \in OtherRunLists }

RequestsOn(bs) == BlockRequests(bs) \cup OtherRunRequests(FirstBlocks(bs))

\* the requests made of a document
EditInputs(doc) ==
    RequestsOn(EditableBlocks(doc))
        \cup { Request(loc, ChangedText, <<>>, NoOverrides) : loc \in BadLocators(doc) }

\* ------------------------------------------------------------------------
\* Extraction pass step by step: tables of all merge descriptors, and the
\* example documents
\* ------------------------------------------------------------------------
\* tables whose w:tblGrid holds no w:gridCol: without rows, with a first row
\* of no w:tc, of one w:tc, and of a continuation w:tc (row.cells raises)
ZeroColumnTables ==
    {Tbl(0, <<>>), Tbl(0, << <<>> >>), Tbl(0, << <<Plain>> >>),
     Tbl(0, << <<Tc([vMerge |-> "continue", gridSpan |-> <<>>], <<DefaultPara>>)>> >>)}

\* a cell whose first paragraph holds a page-type break in a run
BreakCellTables == {Tbl(1, << <<Tc(DefaultMerge, <<ParaBreak, ParaTwoRuns>>)>> >>)}

InitGrid ==
    /\ \/ \E cols \in 1 .. MaxCols, num_rows \in 0 .. MaxRows :
              \E F \in FlaggedSets(cols, num_rows) :
                  \E flags \in [F -> FlagChoices] :
                      current_document = Doc(<<FlaggedTable(cols, num_rows, flags)>>)
       \/ \E cols \in 1 .. MaxCols, num_rows \in 1 .. MaxRows :
              \E q \in Rects(cols, num_rows) :
                  current_document =
                      Doc(<<RectMergeTable(cols, num_rows, q[1], q[2], q[3], q[4])>>)
       \/ current_document = Doc(<<Table3x3>>)
       \/ current_document \in Documents
       \/ \E table \in ZeroColumnTables \cup BreakCellTables : current_document = Doc(<<table>>)
    /\ PassInit

NextGrid ==
    \/ ExtractBegin
    \/ ExtractParagraph
    \/ ExtractSkip
    \/ ExtractTableBegin
    \/ ExtractCell
    \/ ExtractTableEnd
    \/ ExtractReturn

SpecGrid == InitGrid /\ [][NextGrid]_vars

\* ------------------------------------------------------------------------
\* Operations on the session
\* ------------------------------------------------------------------------
\* get_structured_document_content_internal, the pass as one step
Extract ==
    /\ pc = "idle"
    /\ outcome' = IF current_document.open
                  THEN [op |-> "extract", status |-> "ok",
                        blocks |-> ExtractAll(current_document)]
                  ELSE [op |-> "extract", status |-> "ValueError"]
    /\ UNCHANGED <<current_document, pc, pass_vars, edits, current_file_path, documents>>

\* the document and the outcome after an edit
Edited(via, args, doc, raised, status) ==
    /\ current_document' = doc
    /\ outcome' = [op |-> "edit", via |-> via, status |-> status, raised |-> raised,
                   args |-> args, before |-> current_document]

Returned(via, args, res) ==
    Edited(via, args, res.doc, res.raised, IF res.raised = "none" THEN "ok" ELSE "raised")

Responded(via, data, res) ==
    Edited(via, data, res.doc, res.raised, IF res.status = "success" THEN "ok" ELSE "error")

\* edit_block_content_internal
EditBlock ==
    /\ pc = "idle"
    /\ edits < MaxEdits
    /\ \E args \in EditInputs(current_document) :
           Returned("internal", args, EditBlockContentInternal(current_document, args))
    /\ edits' = edits + 1
    /\ UNCHANGED <<pc, pass_vars, current_file_path, documents>>

\* POST /api/edit_block_content
HttpEditBlock ==
    /\ pc = "idle"
    /\ edits < MaxEdits
    /\ \E data \in EditInputs(current_document)
                      \cup {Request(ParagraphLocator(0), NoText, <<>>, NoOverrides)} :
           Responded("http", data, HttpEditBlockContent(current_document, data))
    /\ edits' = edits + 1
    /\ UNCHANGED <<pc, pass_vars, current_file_path, documents>>

Init ==
    /\ current_document \in Documents
    /\ PassInit

Next ==
    \/ Extract
    \/ EditBlock
    \/ HttpEditBlock

Spec == Init /\ [][Next]_vars

\* ------------------------------------------------------------------------
\* Section replacement (spec.md 4.6; the code is not in src/)
\* ------------------------------------------------------------------------
MaxParas == 3
MaxContent == 2
MaxRange == 1

\* text contains sub
Contains(text, sub) ==
    \E i \in 1 .. (Len(text) - Len(sub) + 1) : SubSeq(text, i, i + Len(sub) - 1) = sub

\* position of the first paragraph whose text contains anchor, 0 if none
AnchorIndex(paras, anchor) ==
    IF \E i \in DOMAIN paras : Contains(ParaText(paras[i]), anchor)
    THEN CHOOSE i \in DOMAIN paras :
             /\ Contains(ParaText(paras[i]), anchor)
             /\ \A j \in 1 .. (i - 1) : ~Contains(ParaText(paras[j]), anchor)
    ELSE 0

\* style names in the order of a string comparison
StyleOrder == <<"Heading 1", "Heading 10", "Heading 2", "Normal", "TableGrid", "heading">>

StyleRank(name) == CHOOSE i \in DOMAIN StyleOrder : StyleOrder[i] = name

\* a <= b as strings
StyleLeq(a, b) == StyleRank(a) <= StyleRank(b)

\* the style name starts with "Heading"
StartsWithHeading(name) == name \in {"Heading 1", "Heading 10", "Heading 2"}

\* the paragraph at j ends the section of the anchor paragraph
EndsSection(paras, anchor_idx, j) ==
    /\ StartsWithHeading(paras[j].style)
    /\ StyleLeq(paras[j].style, paras[anchor_idx].style)

\* title-anchored region [start, end), positions from 1, end exclusive
TitleRegion(paras, anchor_idx, keep_title) ==
    [start |-> IF keep_title THEN anchor_idx + 1 ELSE anchor_idx,
     end |-> IF \E j \in (anchor_idx + 1) .. Len(paras) : EndsSection(paras, anchor_idx, j)
             THEN CHOOSE j \in (anchor_idx + 1) .. Len(paras) :
                      /\ EndsSection(paras, anchor_idx, j)
                      /\ \A k \in (anchor_idx + 1) .. (j - 1) :
                             ~EndsSection(paras, anchor_idx, k)
             ELSE Len(paras) + 1]

\* keyword-anchored region [index - range, index + range + 1), clamped
KeywordRegion(paras, anchor_idx, range) ==
    [start |-> IF anchor_idx - range < 1 THEN 1 ELSE anchor_idx - range,
     end |-> IF anchor_idx + range + 1 > Len(paras) + 1 THEN Len(paras) + 1
             ELSE anchor_idx + range + 1]

\* style, alignment, page break and run formatting of one paragraph
CaptureRecord(para) ==
    [style |-> para.style, alignment |-> para.alignment, pbf |-> para.pbf,
     runs |-> para.runs]

\* the records of positions start .. min(end, start + n) - 1
Captured(paras, start, end, n) ==
    [k \in 1 .. ((IF end < start + n THEN end ELSE start + n) - start) |->
        CaptureRecord(paras[start + k - 1])]

\* the record used when the region is empty
DefaultRecord ==
    [style |-> "Normal", alignment |-> "None", pbf |-> "absent", runs |-> <<>>]

\* the record of position k; the last one is repeated past the region
RecordFor(captured, k) ==
    IF captured = <<>> THEN DefaultRecord
    ELSE IF k <= Len(captured) THEN captured[k]
    ELSE captured[Len(captured)]

\* a new paragraph of one run with the formatting of the record
SectionParagraph(text, rec) ==
    [kind |-> "p", style |-> rec.style, alignment |-> rec.alignment, pbf |-> rec.pbf,
     runs |-> <<IF rec.runs = <<>> THEN [DefaultRun EXCEPT !.text = text]
                ELSE [rec.runs[1] EXCEPT !.text = text, !.page_br = FALSE]>>]

\* the paragraphs built from new_content
SectionParagraphs(new_content, captured) ==
    [k \in DOMAIN new_content |-> SectionParagraph(new_content[k], RecordFor(captured, k))]

\* mutant: the region is not deleted
ReplaceRegion_NoDelete(paras, region, new_content) ==
    SubSeq(paras, 1, region.start - 1)
        \o SectionParagraphs(new_content,
               Captured(paras, region.start, region.end, Len(new_content)))
        \o SubSeq(paras, region.start, Len(paras))

\* the region is deleted and the new paragraphs are spliced in at start
ReplaceRegion(paras, region, new_content) ==
    SubSeq(paras, 1, region.start - 1)
        \o SectionParagraphs(new_content,
               Captured(paras, region.start, region.end, Len(new_content)))
        \o SubSeq(paras, region.end, Len(paras))

\* the result of a replacement whose anchor was looked up
Replaced(doc, anchor_idx, region, new_content) ==
    IF anchor_idx = 0
    THEN [doc |-> doc, status |-> "NotFound", region |-> [start |-> 0, end |-> 0]]
    ELSE [doc |-> [doc EXCEPT !.body = ReplaceRegion(doc.body, region, new_content)],
          status |-> "ok", region |-> region]

TitleReplaced(doc, anchor_idx, new_content, keep_title) ==
    Replaced(doc, anchor_idx,
             IF anchor_idx = 0 THEN [start |-> 0, end |-> 0]
             ELSE TitleRegion(doc.body, anchor_idx, keep_title), new_content)

KeywordReplaced(doc, anchor_idx, new_content, range) ==
    Replaced(doc, anchor_idx, KeywordRegion(doc.body, anchor_idx, range), new_content)

\* title-anchored replacement
ReplaceSectionByTitle(doc, title, new_content, keep_title) ==
    TitleReplaced(doc, AnchorIndex(doc.body, title), new_content, keep_title)

\* keyword-anchored replacement
ReplaceSectionByKeyword(doc, keyword, new_content, range) ==
    KeywordReplaced(doc, AnchorIndex(doc.body, keyword), new_content, range)

\* paragraphs of the section documents: two levels of heading and body text
ParaSubHeading ==
    [kind |-> "p", style |-> "Heading 2", alignment |-> "None", pbf |-> "absent",
     runs |-> <<[DefaultRun EXCEPT !.text = <<"s">>]>>]

SectionParas == {ParaHeading, ParaSubHeading, ParaTwoRuns}

RECURSIVE SeqsUpTo(_, _)
\* the sequences over S of length at most n
SeqsUpTo(S, n) ==
    IF n = 0 THEN {<<>>}
    ELSE SeqsUpTo(S, n - 1) \cup {Append(q, x) : q \in SeqsUpTo(S, n - 1), x \in S}

SectionDocuments == {Doc(body) : body \in SeqsUpTo(SectionParas, MaxParas)}

\* the k-th new text
NewItem(k) == <<"n", <<"1", "2", "3", "4">>[k]>>

\* new_content of every length up to MaxContent
NewContents == {[k \in 1 .. n |-> NewItem(k)] : n \in 0 .. MaxContent}

\* titles and keywords: of the heading, of the sub-heading, of body text, of none
Anchors == {<<"b">>, <<"s">>, <<"a">>, <<"z">>}

\* the document and the outcome after a replacement
SectionReplaced(by, anchor, new_content, res) ==
    /\ current_document' = res.doc
    /\ outcome' = [op |-> "replace", by |-> by, status |-> res.status,
                   anchor |-> anchor, new_content |-> new_content,
                   region |-> res.region, before |-> current_document]

ReplaceByTitle ==
    /\ pc = "idle"
    /\ edits < MaxEdits
    /\ current_document.open
    /\ \E title \in Anchors, new_content \in NewContents, keep_title \in BOOLEAN :
           SectionReplaced("title", title, new_content,
               ReplaceSectionByTitle(current_document, title, new_content, keep_title))
    /\ edits' = edits + 1
    /\ UNCHANGED <<pc, pass_vars, current_file_path, documents>>

ReplaceByKeyword ==
    /\ pc = "idle"
    /\ edits < MaxEdits
    /\ current_document.open
    /\ \E keyword \in Anchors, new_content \in NewContents, range \in 0 .. MaxRange :
           SectionReplaced("keyword", keyword, new_content,
               ReplaceSectionByKeyword(current_document, keyword, new_content, range))
    /\ edits' = edits + 1
    /\ UNCHANGED <<pc, pass_vars, current_file_path, documents>>

InitSection ==
    /\ current_document \in SectionDocuments
    /\ PassInit

NextSection ==
    \/ ReplaceByTitle
    \/ ReplaceByKeyword

SpecSection == InitSection /\ [][NextSection]_vars

\* ------------------------------------------------------------------------
\* Properties of the grid reconstruction
\* ------------------------------------------------------------------------
\* the table whose grid is being iterated, and its container index
CurTable == current_document.body[child_pos]
CurTableIndex == ElementIndex(current_document.body, child_pos)

\* the row/column iteration of the current table has finished
GridDone == pc = "cells" /\ r_idx >= NumRows(CurTable)

\* the cell blocks emitted so far for the current table
CurCellBlocks ==
    SelectSeq(content_blocks,
              LAMBDA b : b.type = "table_cell_combined" /\ b.doc_table_index = CurTableIndex)

BlocksAt(bs, r, c) == {i \in DOMAIN bs : bs[i].row_index = r /\ bs[i].col_index = c}

\* every row holds one w:tc per grid column
FullGrid(table) ==
    /\ NumColumns(table) >= 1
    /\ \A i \in DOMAIN table.rows : Len(table.rows[i]) = NumColumns(table)

\* the w:tc declares no merge: no w:vMerge, and no w:gridSpan other than 1
Unmerged(tc) == tc.vMerge = "absent" /\ tc.gridSpan \in {<<>>, <<1>>}

NoMerges(table) ==
    \A i \in DOMAIN table.rows : \A j \in DOMAIN table.rows[i] : Unmerged(table.rows[i][j])

\* C1: a table of R rows and C columns without merges yields exactly R*C
\* cell blocks, one per grid position, each with row_span = col_span = 1.
C1_UnmergedTableEmitsRxC ==
    (GridDone /\ FullGrid(CurTable) /\ NoMerges(CurTable)) =>
        /\ Len(CurCellBlocks) = NumRows(CurTable) * NumColumns(CurTable)
        /\ \A r \in 0 .. (NumRows(CurTable) - 1) : \A c \in 0 .. (NumColumns(CurTable) - 1) :
               Cardinality(BlocksAt(CurCellBlocks, r, c)) = 1
        /\ \A i \in DOMAIN CurCellBlocks :
               CurCellBlocks[i].row_span = 1 /\ CurCellBlocks[i].col_span = 1

C1_Witness ==
    /\ GridDone /\ FullGrid(CurTable) /\ NoMerges(CurTable)
    /\ NumRows(CurTable) >= 2 /\ NumColumns(CurTable) >= 2
    /\ Len(CurCellBlocks) >= 4
    /\ \E i \in DOMAIN CurTable.rows : \E j \in DOMAIN CurTable.rows[i] :
           CurTable.rows[i][j].gridSpan = <<1>>

\* the table's only merge is in grid column c (counted from 0): a restart in
\* row r0 and continuations in the k-1 rows below it
VerticalMergeAt(table, r0, c, k) ==
    /\ FullGrid(table)
    /\ k >= 2 /\ r0 + k <= NumRows(table) /\ c < NumColumns(table)
    /\ \A i \in DOMAIN table.rows : \A j \in DOMAIN table.rows[i] :
           LET tc == table.rows[i][j]
           IN IF j = c + 1 /\ i = r0 + 1
              THEN tc.vMerge = "restart" /\ tc.gridSpan = <<>>
              ELSE IF j = c + 1 /\ i > r0 + 1 /\ i <= r0 + k
              THEN tc.vMerge = "continue" /\ tc.gridSpan = <<>>
              ELSE Unmerged(tc)

\* C2: a vertical merge over k rows of one column yields exactly one block
\* for its k positions, with row_span = k; the k-1 positions below the
\* restart cell are occupied by it and emit no block.
C2_VerticalMergeOneBlock ==
    \A r0 \in 0 .. MaxRows : \A c \in 0 .. MaxCols : \A k \in 2 .. (MaxRows + 1) :
        (GridDone /\ VerticalMergeAt(CurTable, r0, c, k)) =>
            /\ \E i \in DOMAIN CurCellBlocks :
                   /\ CurCellBlocks[i].row_index = r0
                   /\ CurCellBlocks[i].col_index = c
                   /\ CurCellBlocks[i].row_span = k
            /\ Cardinality(BlocksAt(CurCellBlocks, r0, c)) = 1
            /\ \A d \in 1 .. (k - 1) :
                   /\ BlocksAt(CurCellBlocks, r0 + d, c) = {}
                   /\ grid_cell_occupier[r0 + d][c] = OccCell(r0, c)

\* C3: the 3x3 table with cell (0,0) merged over rows 0-1 and columns 0-1
\* yields 7 blocks: 1 table_metadata, 1 cell block at (0,0) with
\* row_span = col_span = 2, and 5 cell blocks with row_span = col_span = 1.
C3_Merged3x3SevenBlocks ==
    (outcome.op = "extract" /\ outcome.status = "ok"
        /\ current_document.body = <<Table3x3>>) =>
        LET bs == outcome.blocks
            cells == SelectSeq(bs, LAMBDA b : b.type = "table_cell_combined")
        IN /\ Len(bs) = 7
           /\ bs[1].type = "table_metadata"
           /\ Len(cells) = 6
           /\ \E i \in DOMAIN cells :
                  /\ cells[i].row_index = 0 /\ cells[i].col_index = 0
                  /\ cells[i].row_span = 2 /\ cells[i].col_span = 2
                  /\ \A j \in DOMAIN cells \ {i} :
                         cells[j].row_span = 1 /\ cells[j].col_span = 1

\* every position of the grid holds an occupier
AllOccupied ==
    \A r \in DOMAIN grid_cell_occupier : \A c \in DOMAIN grid_cell_occupier[r] :
        grid_cell_occupier[r][c] # OccNone

\* a step of the iteration leaves every occupier already written as it is
NoRewrite ==
    (pc = "cells" /\ pc' = "cells") =>
        /\ DOMAIN grid_cell_occupier' = DOMAIN grid_cell_occupier
        /\ \A r \in DOMAIN grid_cell_occupier : \A c \in DOMAIN grid_cell_occupier[r] :
               grid_cell_occupier[r][c] # OccNone =>
                   grid_cell_occupier'[r][c] = grid_cell_occupier[r][c]

\* C4: when the row/column iteration finishes every grid position holds an
\* occupier (primary, continuation or error marker), and no position is
\* written more than once during the iteration.
C4_GridAssignedOnce == [](GridDone => AllOccupied) /\ [][NoRewrite]_vars

C4_Witness ==
    /\ GridDone
    /\ NumRows(CurTable) >= 2 /\ actual_cols >= 2
    /\ \E r \in DOMAIN grid_cell_occupier : \E c \in DOMAIN grid_cell_occupier[r] :
           grid_cell_occupier[r][c].kind = "cell" /\ grid_cell_occupier[r][c] # OccCell(r, c)

\* C5: the marking loop never indexes the grid at a row >= R or a column
\* >= C; a span that exceeds the grid is clipped and the pass goes on
\* without raising.
C5_SpanWritesInBounds ==
    /\ pc = "cells" =>
           \A p \in span_indexed :
               /\ p[1] >= 0 /\ p[1] < NumRows(CurTable)
               /\ p[2] >= 0 /\ p[2] < actual_cols
    /\ outcome.status # "IndexError"

C5_Witness ==
    /\ outcome.op = "extract" /\ outcome.status = "ok"
    /\ \E i \in DOMAIN outcome.blocks :
           /\ outcome.blocks[i].type = "table_cell_combined"
           /\ outcome.blocks[i].col_index + outcome.blocks[i].col_span > actual_cols

\* ------------------------------------------------------------------------
\* Properties of the block list and of the block edit
\* ------------------------------------------------------------------------
ExtractDone == outcome.op = "extract" /\ outcome.status = "ok"

EditDone == outcome.op = "edit"

IsCellBlock(b) == b.type = "table_cell_combined"

IsTableBlock(b) == b.type \in {"table_metadata", "table_cell_combined"}

\* the body child a block was made from
BodyPosOf(body, b) ==
    IF IsTableBlock(b) THEN NthOfKind(body, "tbl", b.doc_table_index)
    ELSE NthOfKind(body, "p", b.doc_paragraph_index)

\* the blocks made from the body child at pos, in list order
BlocksOf(body, bs, pos) == SelectSeq(bs, LAMBDA b : BodyPosOf(body, b) = pos)

RowMajorBefore(a, b) ==
    a.row_index < b.row_index \/ (a.row_index = b.row_index /\ a.col_index < b.col_index)

LocatorIn(args) ==
    [doc_paragraph_index |-> args.doc_paragraph_index,
     doc_table_index |-> args.doc_table_index,
     row_index |-> args.row_index,
     col_index |-> args.col_index]

\* the request addresses an extracted block of doc and carries its run list
CarriesRunsOf(doc, args) ==
    \E i \in DOMAIN EditableBlocks(doc) :
        /\ LocatorOf(EditableBlocks(doc)[i]) = LocatorIn(args)
        /\ EditableBlocks(doc)[i].runs = args.original_runs_info

\* the runs a new extraction returns for the block the request addresses
ReExtractedRuns(doc, args) ==
    LET bs == EditableBlocks(doc)
    IN {bs[i].runs : i \in {j \in DOMAIN bs : LocatorOf(bs[j]) = LocatorIn(args)}}

\* the paragraphs of the target: the paragraph itself, or those of the cell
TargetParagraphs(doc, args) ==
    IF IsParagraphEdit(args)
    THEN <<doc.body[NthOfKind(doc.body, "p", args.doc_paragraph_index[1])]>>
    ELSE LET table == doc.body[NthOfKind(doc.body, "tbl", args.doc_table_index[1])]
         IN TcAt(table, TableCell(table, args.row_index[1], args.col_index[1]).ref).paras

IdempotentRequest(doc, args) ==
    /\ doc.open
    /\ args.original_runs_info # <<>>
    /\ args.new_text = OriginalFullText(args.original_runs_info)
    /\ CarriesRunsOf(doc, args)

\* C7: an edit whose new_text is the concatenation of the texts of
\* original_runs_info, the non-empty run list extracted for the block,
\* succeeds, leaves the target with exactly len(original_runs_info) runs and
\* a new extraction returns for the block a run list equal to
\* original_runs_info.
C7_EditIdempotent ==
    (EditDone /\ IdempotentRequest(outcome.before, outcome.args)) =>
        /\ outcome.status = "ok"
        /\ LET paras == TargetParagraphs(current_document, outcome.args)
           IN Len(paras) = 1 /\ Len(paras[1].runs) = Len(outcome.args.original_runs_info)
        /\ ReExtractedRuns(current_document, outcome.args)
               = {outcome.args.original_runs_info}

\* the cell of two paragraphs re-applied from its three runs, one of them
\* with a half-point size and a color
C7_Witness ==
    /\ EditDone
    /\ IdempotentRequest(outcome.before, outcome.args)
    /\ IsTableCellEdit(outcome.args)
    /\ Len(outcome.args.original_runs_info) = 3
    /\ \E i \in 1 .. 3 :
           /\ outcome.args.original_runs_info[i].font_size_pt = SizeNum(105)
           /\ outcome.args.original_runs_info[i].font_color_rgb.k = "str"

\* C8: every edit either completes with its target repopulated or raises
\* with the document as it was before the call.
C8_EditAllOrNothing ==
    EditDone =>
        IF outcome.raised = "none" /\ outcome.status = "ok"
        THEN \A i \in DOMAIN TargetParagraphs(current_document, outcome.args) :
                 TargetParagraphs(current_document, outcome.args)[i].runs # <<>>
        ELSE current_document = outcome.before

ExactlyOneLocator(args) == IsParagraphEdit(args) # IsTableCellEdit(args)

\* the index of the one locator of the request is out of range
IndexOutOfRange(doc, args) ==
    IF IsParagraphEdit(args)
    THEN args.doc_paragraph_index[1] < 0
            \/ args.doc_paragraph_index[1] >= Cardinality(BodyIndexes(doc.body, "p"))
    ELSE \/ args.doc_table_index[1] < 0
         \/ args.doc_table_index[1] >= Cardinality(BodyIndexes(doc.body, "tbl"))
         \/ LET table == doc.body[NthOfKind(doc.body, "tbl", args.doc_table_index[1])]
            IN \/ args.row_index[1] < 0 \/ args.row_index[1] >= NumRows(table)
               \/ args.col_index[1] < 0 \/ args.col_index[1] >= NumColumns(table)

\* C9: on an open document, an edit by one locator whose paragraph, table,
\* row or column index is negative or not below the number of paragraphs,
\* tables, rows or columns fails with IndexError, and the document is as it
\* was before the call.
C9_IndexOutOfRangeRaises ==
    (/\ EditDone
     /\ outcome.args.new_text # NoText
     /\ outcome.before.open
     /\ ExactlyOneLocator(outcome.args)
     /\ IndexOutOfRange(outcome.before, outcome.args)) =>
        /\ outcome.raised = "IndexError"
        /\ outcome.status # "ok"
        /\ current_document = outcome.before

\* a column index equal to the column count, on a table whose flat cell list
\* has a cell at that offset
C9_Witness ==
    /\ EditDone
    /\ outcome.before.open
    /\ ExactlyOneLocator(outcome.args)
    /\ IsTableCellEdit(outcome.args)
    /\ outcome.args.doc_table_index = <<0>>
    /\ outcome.args.row_index = <<0>>
    /\ TableIndexOk(outcome.before.body, 0)
    /\ LET table == outcome.before.body[NthOfKind(outcome.before.body, "tbl", 0)]
       IN /\ outcome.args.col_index = <<NumColumns(table)>>
          /\ ~TableCell(table, 0, NumColumns(table)).err
    /\ outcome.raised = "IndexError"

\* C10: an edit with both kinds of locator, or with no paragraph index and
\* no complete table/row/col triple, fails with an invalid-argument error
\* and leaves the document as it was.
C10_LocatorKindsExclusive ==
    (EditDone /\ outcome.args.new_text # NoText /\ ~ExactlyOneLocator(outcome.args)) =>
        /\ outcome.status # "ok"
        /\ outcome.via = "internal" => outcome.raised = "ValueError"
        /\ current_document = outcome.before

\* C11: with no document open, an extraction fails with ValueError and an
\* edit fails with ValueError (internal operation) or with an error response
\* given before the internal operation is called (HTTP endpoint); the
\* current document, the current file path and the opened-documents map are
\* unchanged.
C11_NoDocumentFails ==
    [][(~current_document.open) =>
          /\ outcome'.op \in {"extract", "edit"}
          /\ outcome'.status # "ok"
          /\ outcome'.op = "extract" => outcome'.status = "ValueError"
          /\ (outcome'.op = "edit" /\ outcome'.via = "internal")
                 => outcome'.raised = "ValueError"
          /\ (outcome'.op = "edit" /\ outcome'.via = "http")
                 => outcome'.status = "error" /\ outcome'.raised = "none"
          /\ UNCHANGED <<current_document, current_file_path, documents>>]_vars

\* a request with one locator, made of the internal operation while no
\* document is open and a file path is still recorded
C11_Witness ==
    /\ EditDone
    /\ outcome.via = "internal"
    /\ ~outcome.before.open
    /\ ExactlyOneLocator(outcome.args)
    /\ current_file_path = <<"a.docx">>

\* the page_break_before flags an extraction of doc reports for the block
\* the request addresses
ExtractedFlags(doc, args) ==
    LET bs == EditableBlocks(doc)
    IN {bs[i].page_break_before :
           i \in {j \in DOMAIN bs : LocatorOf(bs[j]) = LocatorIn(args)}}

\* C12: a successful edit of a paragraph or of a cell that is given no
\* page-break-before override leaves the page_break_before flag extraction
\* reports for the target as it was before the edit.
C12_NoOverrideKeepsPageBreak ==
    (/\ EditDone
     /\ outcome.status = "ok"
     /\ ExactlyOneLocator(outcome.args)
     /\ outcome.args.original_page_break_before = "None") =>
        ExtractedFlags(current_document, outcome.args)
            = ExtractedFlags(outcome.before, outcome.args)

\* the blocks an extraction of doc returns for the locator of the request
ExtractedBlocks(doc, args) ==
    LET bs == EditableBlocks(doc)
    IN {bs[i] : i \in {j \in DOMAIN bs : LocatorOf(bs[j]) = LocatorIn(args)}}

\* the run carries no explicit formatting
Unformatted(run) ==
    /\ run.bold = "None" /\ run.italic = "None" /\ run.underline = "None"
    /\ run.font_name = <<>> /\ run.sz = 0 /\ run.color = <<>>

\* the record is one an extraction of doc returns
ExtractedRecord(doc, r_info) ==
    \E i \in DOMAIN EditableBlocks(doc) : \E k \in DOMAIN EditableBlocks(doc)[i].runs :
        EditableBlocks(doc)[i].runs[k] = r_info

\* the single run of the target is what the request asks for
SingleRunAsAsked(run, before, args) ==
    /\ run.text = args.new_text
    /\ args.original_runs_info = <<>> => Unformatted(run)
    /\ (args.original_runs_info # <<>>
            /\ ExtractedRecord(before, args.original_runs_info[1]))
           => [RunInfo(run) EXCEPT !.text = <<>>]
                  = [args.original_runs_info[1] EXCEPT !.text = <<>>]

\* C13: after a successful edit whose new_text differs from the
\* concatenation of the original run texts, or whose original_runs_info is
\* empty, the target holds exactly one run; its text is new_text, it has the
\* formatting of original_runs_info[0] or, for an empty list, none; a new
\* extraction gives the block the text new_text and one run.
C13_ChangedTextOneRun ==
    (/\ EditDone
     /\ outcome.status = "ok"
     /\ ExactlyOneLocator(outcome.args)
     /\ ~TextUnchanged(outcome.args.new_text, outcome.args.original_runs_info)) =>
        /\ LET paras == TargetParagraphs(current_document, outcome.args)
           IN /\ Len(paras) = 1
              /\ Len(paras[1].runs) = 1
              /\ SingleRunAsAsked(paras[1].runs[1], outcome.before, outcome.args)
        /\ \A b \in ExtractedBlocks(current_document, outcome.args) :
               b.text = outcome.args.new_text /\ Len(b.runs) = 1

\* the index of the one locator is in range and the cell can be reached
TargetExists(doc, args) ==
    /\ doc.open
    /\ ExactlyOneLocator(args)
    /\ ~IndexOutOfRange(doc, args)
    /\ IsTableCellEdit(args) =>
           ~TableCell(doc.body[NthOfKind(doc.body, "tbl", args.doc_table_index[1])],
                      args.row_index[1], args.col_index[1]).err

\* every size of the run records is a number or None
SizesWellFormed(original_runs_info) ==
    \A i \in DOMAIN original_runs_info : original_runs_info[i].font_size_pt.k # "str"

\* C14: an edit of an existing target whose run records have well-formed
\* sizes completes whatever their color strings are: no color value makes
\* the edit raise.
C14_ColorNeverRaises ==
    (/\ EditDone
     /\ outcome.args.new_text # NoText
     /\ TargetExists(outcome.before, outcome.args)
     /\ SizesWellFormed(outcome.args.original_runs_info)) =>
        outcome.raised = "none" /\ outcome.status = "ok"

\* C15: after a successful edit of a table cell the cell holds exactly one
\* paragraph, whatever it held before; the text of that paragraph is
\* new_text, line feeds included, and a new extraction reports new_text as
\* the text of the cell.
C15_CellCollapsesToOneParagraph ==
    (/\ EditDone
     /\ outcome.status = "ok"
     /\ ExactlyOneLocator(outcome.args)
     /\ IsTableCellEdit(outcome.args)) =>
        /\ LET paras == TargetParagraphs(current_document, outcome.args)
           IN Len(paras) = 1 /\ ParaText(paras[1]) = outcome.args.new_text
        /\ \A b \in ExtractedBlocks(current_document, outcome.args) :
               b.text = outcome.args.new_text

ReplaceDone == outcome.op = "replace"

\* C16: a section replacement whose anchor is found succeeds; it leaves
\* exactly len(new_content) paragraphs where the region [start, end) was, in
\* the order of new_content, and every paragraph outside the region is
\* unchanged and in its place relative to the others; with an empty
\* new_content the region is deleted.
C16_SectionReplacedInPlace ==
    (ReplaceDone /\ AnchorIndex(outcome.before.body, outcome.anchor) # 0) =>
        LET old == outcome.before.body
            new == current_document.body
            n == Len(outcome.new_content)
            start == outcome.region.start
            end == outcome.region.end
        IN /\ outcome.status = "ok"
           /\ 1 <= start /\ start <= end /\ end <= Len(old) + 1
           /\ Len(new) = Len(old) - (end - start) + n
           /\ \A k \in 1 .. n :
                  /\ Len(new[start + k - 1].runs) = 1
                  /\ ParaText(new[start + k - 1]) = outcome.new_content[k]
           /\ \A i \in 1 .. (start - 1) : new[i] = old[i]
           /\ \A i \in end .. Len(old) : new[i - (end - start) + n] = old[i]

\* a one-paragraph region between two kept paragraphs is replaced by two
C16_Witness ==
    /\ ReplaceDone
    /\ outcome.status = "ok"
    /\ outcome.region.start > 1
    /\ outcome.region.end = outcome.region.start + 1
    /\ outcome.region.end <= Len(outcome.before.body)
    /\ Len(outcome.new_content) = 2

\* no w:tc of the table spans more than one grid column
NoColumnSpans(table) ==
    \A i \in DOMAIN table.rows : \A j \in DOMAIN table.rows[i] :
        table.rows[i][j].gridSpan \in {<<>>, <<1>>}

\* the w:tc at grid position (r, c) carries w:vMerge with a value other than
\* "restart" or with no value
FlagNotRestart(table, r, c) == table.rows[r + 1][c + 1].vMerge \in {"continue", "noval"}

\* C17: a cell whose vertical-merge flag is present and not "restart"
\* (explicit "continue" or no value) is a continuation: no block is emitted
\* at its position, and the position holds the occupier of (r-1, c), or the
\* literal (r-1, c) when that position has no occupier.
C17_ContinuationEmitsNoBlock ==
    (GridDone /\ FullGrid(CurTable) /\ NoColumnSpans(CurTable)) =>
        \A r \in 0 .. (NumRows(CurTable) - 1) : \A c \in 0 .. (NumColumns(CurTable) - 1) :
            FlagNotRestart(CurTable, r, c) =>
                /\ BlocksAt(CurCellBlocks, r, c) = {}
                /\ grid_cell_occupier[r][c] =
                       IF r > 0 /\ grid_cell_occupier[r - 1][c].kind = "cell"
                       THEN grid_cell_occupier[r - 1][c]
                       ELSE OccCell(r - 1, c)

\* the number of cells of the first row, 0 when there is none to count
FirstRowCells(table) ==
    IF NumRows(table) = 0 \/ FirstRowCellCount(table).err THEN 0
    ELSE FirstRowCellCount(table).n

\* C18: the logical column count of a table is its column-definition count
\* if that is not 0, else the cell count of its first row if that is not 0,
\* else 1; so the occupancy grid of every table is at least 1 wide.
C18_ColumnCountAtLeastOne ==
    pc = "cells" =>
        /\ actual_cols =
               IF NumColumns(CurTable) # 0 THEN NumColumns(CurTable)
               ELSE IF FirstRowCells(CurTable) # 0 THEN FirstRowCells(CurTable)
               ELSE 1
        /\ actual_cols >= 1
        /\ \A r \in DOMAIN grid_cell_occupier : DOMAIN grid_cell_occupier[r] # {}

\* the paragraph's page-break-before property is on, or one of its runs
\* holds a page-type break
BreaksPage(para) == para.pbf = "on" \/ \E i \in DOMAIN para.runs : para.runs[i].page_br

\* the first paragraph of the cell breaks the page
CellBreaksPage(table, cell) ==
    /\ ~cell.err
    /\ TcAt(table, cell.ref).paras # <<>>
    /\ BreaksPage(TcAt(table, cell.ref).paras[1])

\* C19: page_break_before of an extracted block is true exactly when the
\* paragraph's page-break-before property is set or one of its runs holds a
\* page-type break, for paragraph blocks, for heading blocks and for the
\* first paragraph of a combined cell block.
C19_PageBreakFlagExact ==
    ExtractDone =>
        \A i \in DOMAIN outcome.blocks :
            LET b == outcome.blocks[i]
                child == current_document.body[BodyPosOf(current_document.body, b)]
            IN /\ b.type \in {"paragraph", "heading"} =>
                      b.page_break_before = BreaksPage(child)
               /\ IsCellBlock(b) =>
                      b.page_break_before =
                          CellBreaksPage(child, TableCell(child, b.row_index, b.col_index))

\* C20: every emitted cell block has row_span >= 1 and col_span >= 1 and
\* lies inside the grid of its table: row_index + row_span <= R and
\* col_index + col_span <= C, whatever span the cell declares (0, or more
\* than the columns that remain).
C20_BlockSpansInsideGrid ==
    pc = "cells" =>
        \A i \in DOMAIN CurCellBlocks :
            /\ CurCellBlocks[i].row_span >= 1
            /\ CurCellBlocks[i].col_span >= 1
            /\ CurCellBlocks[i].row_index + CurCellBlocks[i].row_span <= NumRows(CurTable)
            /\ CurCellBlocks[i].col_index + CurCellBlocks[i].col_span <= actual_cols

\* the rectangle of block b holds grid position (r, c)
InRectangle(b, r, c) ==
    /\ b.row_index <= r /\ r < b.row_index + b.row_span
    /\ b.col_index <= c /\ c < b.col_index + b.col_span

\* the blocks of the current table whose rectangle holds (r, c)
Covering(r, c) == {i \in DOMAIN CurCellBlocks : InRectangle(CurCellBlocks[i], r, c)}

\* C21: after a table is processed its cell blocks partition the grid:
\* every grid position lies in the rectangle of exactly one emitted block
\* and the occupier recorded there is that block's (row_index, col_index);
\* so no occupier names a coordinate outside the grid or a cell without a
\* block, and no two rectangles overlap.
C21_BlocksPartitionGrid ==
    GridDone =>
        \A r \in DOMAIN grid_cell_occupier : \A c \in DOMAIN grid_cell_occupier[r] :
            /\ Cardinality(Covering(r, c)) = 1
            /\ \A i \in Covering(r, c) :
                   grid_cell_occupier[r][c] =
                       OccCell(CurCellBlocks[i].row_index, CurCellBlocks[i].col_index)

\* C21 as it holds: after a table is processed every grid position either
\* holds the error marker and lies in no rectangle, or lies in the rectangle
\* of exactly one emitted block whose (row_index, col_index) is the occupier
\* recorded there.
C21_BlocksPartitionReadableGrid ==
    GridDone =>
        \A r \in DOMAIN grid_cell_occupier : \A c \in DOMAIN grid_cell_occupier[r] :
            IF grid_cell_occupier[r][c] = OccIndexError
            THEN Covering(r, c) = {}
            ELSE /\ Cardinality(Covering(r, c)) = 1
                 /\ \A i \in Covering(r, c) :
                        grid_cell_occupier[r][c] =
                            OccCell(CurCellBlocks[i].row_index, CurCellBlocks[i].col_index)

\* a processed grid with an error marker beside a position that a block
\* covers
C21_Witness ==
    /\ GridDone
    /\ \E r \in DOMAIN grid_cell_occupier : \E c \in DOMAIN grid_cell_occupier[r] :
           /\ grid_cell_occupier[r][c] = OccIndexError
           /\ \E c2 \in DOMAIN grid_cell_occupier[r] : Cardinality(Covering(r, c2)) = 1

\* C22: extraction is read-only and deterministic: no step of it changes
\* the document or the session state, and an extraction that follows another
\* with no edit between them returns an equal block list; the blocks, the
\* counter and the grid left by the call before are not reused.
C22_ExtractionReadOnly ==
    [][/\ UNCHANGED <<current_document, current_file_path, documents>>
       /\ (ExtractDone /\ ExtractDone') => outcome'.blocks = outcome.blocks]_vars

\* a second extraction of a document with a table is about to return, the
\* grid and the result of the first still being there
C22_Witness ==
    /\ ExtractDone
    /\ pc = "body"
    /\ child_pos > Len(current_document.body)
    /\ Len(content_blocks) >= 3
    /\ \E r \in DOMAIN grid_cell_occupier : DOMAIN grid_cell_occupier[r] # {}

\* the container indices of a block
BlockPlace(b) ==
    IF b.type = "table_metadata" THEN <<"t", b.doc_table_index>>
    ELSE IF IsCellBlock(b) THEN <<"c", b.doc_table_index, b.row_index, b.col_index>>
    ELSE <<"p", b.doc_paragraph_index>>

\* the block is the one the request addresses
Addressed(b, args) == b.type # "table_metadata" /\ LocatorOf(b) = LocatorIn(args)

\* C23: a successful block edit changes only its target: the extraction
\* after the edit has the same number of blocks as the one before, in the
\* same order with the same ids and container indices, and every block
\* other than the one the locator addresses is identical (text, style,
\* alignment, page-break flag, spans, runs).
C23_EditChangesOnlyTarget ==
    (EditDone /\ outcome.status = "ok" /\ ExactlyOneLocator(outcome.args)) =>
        LET before == ExtractAll(outcome.before)
            after == ExtractAll(current_document)
        IN /\ Len(after) = Len(before)
           /\ \A i \in DOMAIN before :
                  /\ after[i].id = before[i].id
                  /\ after[i].overall_block_index = before[i].overall_block_index
                  /\ BlockPlace(after[i]) = BlockPlace(before[i])
                  /\ ~Addressed(before[i], outcome.args) => after[i] = before[i]

\* C24: after a successful block edit with an explicit page-break-before
\* override b, a new extraction reports page_break_before = b for the
\* edited block; with b = false the extracted flag is false.
C24_PageBreakRoundTrip ==
    (EditDone /\ outcome.status = "ok" /\ ExactlyOneLocator(outcome.args)
        /\ outcome.args.original_page_break_before \in {"True", "False"}) =>
        ExtractedFlags(current_document, outcome.args) =
            {outcome.args.original_page_break_before = "True"}

\* the pass made step by step returns what ExtractAll computes
StepwiseAgrees ==
    (outcome.op = "extract" /\ outcome.status = "ok") =>
        outcome.blocks = ExtractAll(current_document)
====
